---- MODULE Spec2Model ----
(***************************************************************************)
(* Twain Travel AI Assistant: the tool-calling orchestration run           *)
(* (src/agents), the tools (src/agents/tools) and the book vector store    *)
(* service (src/services/book_vectorstore_service.py).                     *)
(*                                                                         *)
(* The specifications share the variables:                                 *)
(*   SpecAgent   one AgentRunner.run: history conversion, the compiled     *)
(*               agent/tools graph, the tools and their capabilities;      *)
(*   SpecIndex   the life of BookVectorStoreService instances over the     *)
(*               persisted index directory, with searches;                 *)
(*   SpecSearch  similarity_search as a function of index, k and filter.   *)
(*   SpecChunk   the chunker; SpecWeather the weather report;              *)
(*   SpecStore   the calls of ChatService over the database and its pool;   *)
(*   SpecChat    one POST /chat/message among the writes of other requests.*)
(***************************************************************************)
EXTENDS Integers, Sequences, FiniteSets, TLC

(* ------------------------------ bounds -------------------------------- *)

\* largest recursion limit a run is started with
MaxLimit == 3
\* most tool-call requests in one model response
MaxCalls == 2
\* most chunks of the book in the life-cycle specification
MaxChunks == 2
\* largest k of a search
MaxK == 3
\* most index entries in the search specification
MaxIndex == 22
\* most index entries of the filtered chapter in the search specification
MaxMatch == 2

\* most conversations ever created in the chat specification
MaxConvs == 2
\* most message inserts ever attempted in the chat specification
MaxMsgs == 2
\* largest reading of the database clock
MaxTime == 1
\* connections of the pool (DB_POOL_MAX_CONNECTIONS, which the configuration
\* of this snapshot does not define)
MaxPool == 2

(* ------------------------- program constants -------------------------- *)

\* "get top 3 most relevant passages": the k the tools search with
TOP_K_RESULTS == 3
\* FAISS.similarity_search(..., filter=...) is called without fetch_k, which
\* leaves the vector store's default: the 20 nearest entries are fetched and
\* the filter is applied to those
FAISS_FETCH_K == 20

None == "None"

VARIABLES
    \* ---- one orchestration run (AgentRunner.run) ----
    pc,          \* where the run is: start, agent, tools, toolrun, end, done
    limit,       \* config["recursion_limit"]
    history,     \* config["configurable"]["conversation_history"]
    messages,    \* the graph state's message list
    steps,       \* node executions (super-steps) of the graph so far
    completed,   \* indices of the tool calls of this dispatch, in completion order
    result,      \* what run gave its caller
    capEnv,      \* how the external capabilities behave during this run
    trail,       \* ghost: the node executions of the run, in order
    invoked,     \* ghost: the message list each model invocation received
    \* ---- the book vector store ----
    corpus,      \* the chunks of the book, nearest to the probe query first
    chunkFile,   \* BOOK_PROCESSED_PATH: absent, empty or present
    diskIndex,   \* FAISS_INDEX_PATH: [state, docs]
    svc,         \* per instance: where its construction is
    vector_store,\* per instance: self.vector_store
    path,        \* ghost, per instance: the branch _load_and_index_chunks took
    searchOut,   \* the last search call and what it gave
    \* ---- the chunker and the weather report ----
    chapters,    \* the chapters _extract_chapters found in the cleaned text
    all_chunks,  \* what _create_text_chunks returned for them
    weather_call,\* a get_weather call: its units and what the weather API answers
    report,      \* what format_weather_response made of the weather
    \* ---- the chat routes, ChatService and the database ----
    db,          \* the committed tables: [convs, msgs], rows in commit order
    serial,      \* the SERIAL counters, and a ghost count of committed writes
    now,         \* the database clock (CURRENT_TIMESTAMP)
    used,        \* connections checked out of the pool
    txn,         \* per caller: the open add_message transaction
    req,         \* the POST /chat/message request being handled
    chatOut      \* the last call of another client and what it gave

agentVars == <<pc, limit, history, messages, steps, completed, result, capEnv, trail, invoked>>
indexVars == <<corpus, chunkFile, diskIndex, svc, vector_store, path, searchOut>>
textVars == <<chapters, all_chunks, weather_call, report>>
chatVars == <<db, serial, now, used, txn, req, chatOut>>
vars == <<agentVars, indexVars, textVars, chatVars>>

(* ===================== book vector store service ====================== *)

Instances == {"i1", "i2"}

Min(a, b) == IF a < b THEN a ELSE b

Max(a, b) == IF a > b THEN a ELSE b

\* the slice s[:n]: the first n entries, or for a negative n all but the
\* last -n
Take(s, n) ==
    IF n >= 0 THEN SubSeq(s, 1, Min(n, Len(s)))
    ELSE SubSeq(s, 1, Max(Len(s) + n, 0))

\* chunk i of the book, in chapter c (Document metadata, lines 89-98)
Doc(i, c) == [chunk_id |-> i, chapter_number |-> c]

\* self.vector_store: None, or the index with its entries
NoStore == [present |-> FALSE, docs |-> <<>>]
Store(d) == [present |-> TRUE, docs |-> d]

Raised(e) == [kind |-> "raised", error |-> e, docs |-> <<>>]
Returned(d) == [kind |-> "returned", error |-> None, docs |-> d]

\* langchain FAISS.similarity_search(query, k, filter): without a filter the k
\* nearest entries; with one, the FAISS_FETCH_K nearest are fetched, the filter
\* is applied to them and the first k survivors are returned
faiss_similarity_search(docs, k, filter) ==
    IF filter = None
    THEN Take(docs, k)
    ELSE Take(SelectSeq(Take(docs, FAISS_FETCH_K),
                        LAMBDA d : d.chapter_number = filter), k)

\* BookVectorStoreService.similarity_search, lines 118-156. fails: the
\* embedding of the query or the index search raises. k is handed on as it
\* came: without a filter the index is asked for k neighbours, which it
\* refuses for k < 1 (the error is caught like any other, lines 154-156); with
\* a filter the index is asked for FAISS_FETCH_K and k only slices the lists
similarity_search(vs, k, filter_chapter, fails) ==
    IF ~vs.present
    THEN Raised("ValueError: Vector store not initialized")
    ELSE IF fails \/ (filter_chapter = None /\ k < 1)
    THEN Returned(<<>>)
    ELSE IF filter_chapter # None
    THEN Returned(Take(faiss_similarity_search(vs.docs, k * 2, filter_chapter), k))
    ELSE Returned(faiss_similarity_search(vs.docs, k, None))

\* mutant of similarity_search_with_score: the check of line 173 is missing
similarity_search_with_score_unguarded(vs, k, fails) ==
    IF fails
    THEN Returned(<<>>)
    ELSE Returned(faiss_similarity_search(vs.docs, k, None))

\* BookVectorStoreService.similarity_search_with_score, lines 158-183
similarity_search_with_score(vs, k, fails) ==
    IF ~vs.present
    THEN Raised("ValueError: Vector store not initialized")
    ELSE IF fails
    THEN Returned(<<>>)
    ELSE Returned(faiss_similarity_search(vs.docs, k, None))

\* BookVectorStoreService.get_retriever, lines 185-199: the retriever searches
\* the store with search_kwargs when it is invoked
get_retriever(vs, k) ==
    IF ~vs.present
    THEN Raised("ValueError: Vector store not initialized")
    ELSE Returned(faiss_similarity_search(vs.docs, k, None))

\* downloader.load_book_chunks(), gutenberg_downloader.py lines 179-188: None
\* when the chunk file is absent, else its list of chunks
load_book_chunks(file, book) ==
    IF file = "absent" THEN [none |-> TRUE, list |-> <<>>]
    ELSE IF file = "empty" THEN [none |-> FALSE, list |-> <<>>]
    ELSE [none |-> FALSE, list |-> book]

\* "if not chunks": None and the empty list are both falsy (line 81)
NoChunks(chunks) == chunks.none \/ chunks.list = <<>>

\* the directory test of line 65
IndexDirExists(disk) == disk.state # "absent"

Absent == [state |-> "absent", docs |-> <<>>]
Corrupt == [state |-> "corrupt", docs |-> <<>>]
Partial == [state |-> "partial", docs |-> <<>>]
Valid(d) == [state |-> "valid", docs |-> d]

NoPath == <<None, None>>

\* __init__, lines 19-23: a new instance, nothing loaded yet
Construct(i) ==
    /\ svc[i] = "absent"
    /\ svc' = [svc EXCEPT ![i] = "new"]
    /\ vector_store' = [vector_store EXCEPT ![i] = NoStore]
    /\ path' = [path EXCEPT ![i] = NoPath]
    /\ UNCHANGED <<corpus, chunkFile, diskIndex, searchOut, agentVars, textVars, chatVars>>

\* _setup, lines 33-45: the embedding model is loaded, or that raises
LoadEmbeddings(i) ==
    /\ svc[i] = "new"
    /\ \E ok \in BOOLEAN :
         svc' = [svc EXCEPT ![i] = IF ok THEN "embedded" ELSE "failed"]
    /\ UNCHANGED <<corpus, chunkFile, diskIndex, vector_store, path, searchOut, agentVars, textVars, chatVars>>

\* _setup, lines 47-50: download_innocents_abroad when the book is not there;
\* it catches its own errors (gutenberg_downloader.py lines 57-59), so a failed
\* download leaves no chunk file and raises nothing
EnsureBook(i) ==
    /\ svc[i] = "embedded"
    /\ IF chunkFile = "absent"
       THEN chunkFile' \in {"absent", "empty", "present"}
       ELSE chunkFile' = chunkFile
    /\ svc' = [svc EXCEPT ![i] = "booked"]
    /\ UNCHANGED <<corpus, diskIndex, vector_store, path, searchOut, agentVars, textVars, chatVars>>

\* mutant of load_local: an unreadable store loads as an empty index
load_local_lenient(disk) == Returned(disk.docs)

\* FAISS.load_local of lines 67-71: the stored index, or an error when the
\* directory is missing, incomplete or unreadable
load_local(disk) ==
    IF disk.state = "valid" THEN Returned(disk.docs)
    ELSE Raised("index unavailable")

\* _load_and_index_chunks, lines 64-73 and 114-116: the directory exists, so
\* FAISS.load_local reads it; an unreadable or incomplete store makes it raise
LoadIndex(i) ==
    /\ svc[i] = "booked"
    /\ IndexDirExists(diskIndex)
    /\ LET loaded == load_local(diskIndex) IN
       IF loaded.kind = "returned"
       THEN /\ vector_store' = [vector_store EXCEPT ![i] = Store(loaded.docs)]
            /\ svc' = [svc EXCEPT ![i] = "ready"]
       ELSE /\ svc' = [svc EXCEPT ![i] = "failed"]
            /\ UNCHANGED vector_store
    /\ path' = [path EXCEPT ![i] = <<"load", diskIndex.state>>]
    /\ UNCHANGED <<corpus, chunkFile, diskIndex, searchOut, agentVars, textVars, chatVars>>

\* the chunks check of lines 79-82
BuildRefused(chunks) == NoChunks(chunks)

\* _load_and_index_chunks, lines 75-106: no directory, so the chunks are read
\* and indexed; no chunks, or a failing embedding, raises
BuildIndex(i) ==
    /\ svc[i] = "booked"
    /\ ~IndexDirExists(diskIndex)
    /\ LET chunks == load_book_chunks(chunkFile, corpus) IN
       IF BuildRefused(chunks)
       THEN /\ svc' = [svc EXCEPT ![i] = "failed"]
            /\ UNCHANGED vector_store
       ELSE \E ok \in BOOLEAN :
            IF ok
            THEN /\ vector_store' = [vector_store EXCEPT ![i] = Store(chunks.list)]
                 /\ svc' = [svc EXCEPT ![i] = "built"]
            ELSE /\ svc' = [svc EXCEPT ![i] = "failed"]
                 /\ UNCHANGED vector_store
    /\ path' = [path EXCEPT ![i] = <<"build", chunkFile>>]
    /\ UNCHANGED <<corpus, chunkFile, diskIndex, searchOut, agentVars, textVars, chatVars>>

\* save_local, line 110, first half: the directory is made and the files are
\* being written; or the write raises
SaveBegin(i) ==
    /\ svc[i] = "built"
    /\ \E ok \in BOOLEAN :
         IF ok
         THEN /\ diskIndex' = Partial
              /\ svc' = [svc EXCEPT ![i] = "saving"]
         ELSE /\ svc' = [svc EXCEPT ![i] = "failed"]
              /\ UNCHANGED diskIndex
    /\ UNCHANGED <<corpus, chunkFile, vector_store, path, searchOut, agentVars, textVars, chatVars>>

\* save_local, line 110, second half: both files are written; _setup returns
SaveEnd(i) ==
    /\ svc[i] = "saving"
    /\ diskIndex' = Valid(vector_store[i].docs)
    /\ svc' = [svc EXCEPT ![i] = "ready"]
    /\ UNCHANGED <<corpus, chunkFile, vector_store, path, searchOut, agentVars, textVars, chatVars>>

Filters == {None, "I"}

NoCall ==
    [op |-> None, inst |-> None, k |-> 0, filter |-> None, fails |-> FALSE,
     store |-> NoStore, out |-> Returned(<<>>)]

Call(op, i, k, f, fails, out) ==
    [op |-> op, inst |-> i, k |-> k, filter |-> f, fails |-> fails,
     store |-> vector_store[i], out |-> out]

\* a caller's similarity_search(query, k, filter_chapter) (lines 118-156); the
\* method guards itself (line 135), so the caller may hold the object at any
\* point of its life
Search(i, k, f, fails) ==
    /\ svc[i] # "absent"
    /\ searchOut' = Call("similarity_search", i, k, f, fails,
                         similarity_search(vector_store[i], k, f, fails))
    /\ UNCHANGED <<corpus, chunkFile, diskIndex, svc, vector_store, path, agentVars, textVars, chatVars>>

\* a caller's similarity_search_with_score(query, k) (lines 158-183)
SearchWithScore(i, k, fails) ==
    /\ svc[i] # "absent"
    /\ searchOut' = Call("similarity_search_with_score", i, k, None, fails,
                         similarity_search_with_score(vector_store[i], k, fails))
    /\ UNCHANGED <<corpus, chunkFile, diskIndex, svc, vector_store, path, agentVars, textVars, chatVars>>

\* a caller's get_retriever({'k': k}) (lines 185-199), then retriever.invoke
GetRetriever(i, k) ==
    /\ svc[i] # "absent"
    /\ searchOut' = Call("get_retriever", i, k, None, FALSE,
                         get_retriever(vector_store[i], k))
    /\ UNCHANGED <<corpus, chunkFile, diskIndex, svc, vector_store, path, agentVars, textVars, chatVars>>

(* ============================= the chunker ============================ *)

\* chunk_size and chunk_overlap of the text splitter (config.py lines 21-22)
LANGCHAIN_CHUNK_SIZE == 1000
LANGCHAIN_CHUNK_OVERLAP == 200

\* A chapter's content is a sequence of words, given by their lengths, with one
\* blank between neighbours (_clean_gutenberg_text leaves single blanks, line
\* 101; _extract_chapters strips the content, line 126) and no line breaks. A
\* piece of it is the len characters from offset start, the first lead of
\* them blanks.
Piece(start, len, lead) == [start |-> start, len |-> len, lead |-> lead]

RECURSIVE SumTo(_, _)
\* the sum of the first n entries of a sequence of numbers
SumTo(ws, n) == IF n = 0 THEN 0 ELSE SumTo(ws, n - 1) + ws[n]

\* len(content)
TextLen(ws) == IF ws = <<>> THEN 0 ELSE SumTo(ws, Len(ws)) + Len(ws) - 1

\* the splits at the separator " " with keep_separator=True: the blank stays
\* at the head of the word after it
WordSplits(ws) ==
    [i \in 1..Len(ws) |->
        IF i = 1 THEN Piece(0, ws[1], 0)
        ELSE Piece(SumTo(ws, i - 1) + i - 2, ws[i] + 1, 1)]

\* the splits at the separator "": the characters of the piece
CharSplits(p) ==
    [j \in 1..p.len |-> Piece(p.start + j - 1, 1, IF j <= p.lead THEN 1 ELSE 0)]

\* _join_docs with the separator "" (keep_separator) and strip_whitespace:
\* the pieces joined and stripped, None (no chunk) when nothing is left
join_docs(cur, total) ==
    IF cur = <<>> \/ total - cur[1].lead = 0
    THEN <<>>
    ELSE <<Piece(cur[1].start + cur[1].lead, total - cur[1].lead, 0)>>

\* the total length of the pieces a..b of the splits (neighbours in the text)
Span(splits, a, b) ==
    IF a > b THEN 0 ELSE splits[b].start + splits[b].len - splits[a].start

\* the while loop of _merge_splits before piece i is added to the pieces
\* first..i-1: pieces are dropped from the head until what is kept fits the
\* overlap and, with piece i, the chunk size; the index of the first piece kept
PopDoc(splits, first, i) ==
    CHOOSE m \in first..i :
        /\ LET total == Span(splits, m, i - 1) IN
           ~(\/ total > LANGCHAIN_CHUNK_OVERLAP
             \/ (total + splits[i].len > LANGCHAIN_CHUNK_SIZE /\ total > 0))
        /\ \A q \in first..(m - 1) :
             LET total == Span(splits, q, i - 1) IN
             \/ total > LANGCHAIN_CHUNK_OVERLAP
             \/ (total + splits[i].len > LANGCHAIN_CHUNK_SIZE /\ total > 0)

RECURSIVE MergeLoop(_, _, _, _)
\* the for loop of _merge_splits, taken from one emitted chunk to the next:
\* current_doc holds the pieces first..from-1; the pieces from `from` on are
\* added up to the first one, i, that no longer fits (line "if total + _len >
\* chunk_size"), where the chunk is emitted and the head is dropped
MergeLoop(splits, first, from, docs) ==
    LET Over == {i \in from..Len(splits) :
                    /\ i > first
                    /\ Span(splits, first, i) > LANGCHAIN_CHUNK_SIZE} IN
    IF Over = {}
    THEN docs \o join_docs(SubSeq(splits, first, Len(splits)),
                           Span(splits, first, Len(splits)))
    ELSE LET i == CHOOSE x \in Over : \A y \in Over : x <= y IN
         MergeLoop(splits, PopDoc(splits, first, i), i + 1,
                   docs \o join_docs(SubSeq(splits, first, i - 1),
                                     Span(splits, first, i - 1)))

\* RecursiveCharacterTextSplitter._merge_splits
merge_splits(splits) == MergeLoop(splits, 1, 1, <<>>)

\* _split_text of a piece with the separators [""]: its characters, merged
\* (a character is never as long as the chunk size)
split_chars(p) == merge_splits(CharSplits(p))

RECURSIVE SplitLoop(_, _, _, _)
\* the for loop of _split_text at the separator " ": short pieces are
\* collected and merged, a piece as long as the chunk size or longer is split
\* further with the remaining separators
SplitLoop(splits, i, good, final) ==
    IF i > Len(splits)
    THEN final \o merge_splits(good)
    ELSE IF splits[i].len < LANGCHAIN_CHUNK_SIZE
    THEN SplitLoop(splits, i + 1, Append(good, splits[i]), final)
    ELSE SplitLoop(splits, i + 1, <<>>,
                   final \o merge_splits(good) \o split_chars(splits[i]))

\* mutant of split_text: every word is a chunk of its own
split_text_per_word(ws) == WordSplits(ws)

\* text_splitter.split_text(chapter_text) (line 157): the first separator of
\* ["\n\n", "\n", " ", ""] that occurs in the text is " " when there are two
\* words or more, else ""
split_text(ws) ==
    IF Len(ws) >= 2
    THEN SplitLoop(WordSplits(ws), 1, <<>>, <<>>)
    ELSE IF ws = <<>> THEN <<>>
    ELSE split_chars(Piece(0, ws[1], 0))

\* a chapter as _extract_chapters gives it (lines 128-134)
Chapter(number, ws) == [chapter_number |-> number, content |-> ws]

\* mutant of chapter_chunks: the ids start again at 0 in every chapter
chapter_chunks_per_chapter(chapter, chunk_id) ==
    LET docs == split_text(chapter.content) IN
    [chunk_idx \in 1..Len(docs) |->
        [id |-> chunk_idx - 1,
         chunk_index |-> chunk_idx - 1,
         position |-> docs[chunk_idx].start,
         length |-> docs[chunk_idx].len,
         chapter_number |-> chapter.chapter_number,
         chunk_in_chapter |-> chunk_idx - 1,
         total_chunks_in_chapter |-> Len(docs)]]

\* the chunks of one chapter, lines 159-170; position: where the chunk's text
\* lies in the chapter's content
chapter_chunks(chapter, chunk_id) ==
    LET docs == split_text(chapter.content) IN
    [chunk_idx \in 1..Len(docs) |->
        [id |-> chunk_id + chunk_idx - 1,
         chunk_index |-> chunk_id + chunk_idx - 1,
         position |-> docs[chunk_idx].start,
         length |-> docs[chunk_idx].len,
         chapter_number |-> chapter.chapter_number,
         chunk_in_chapter |-> chunk_idx - 1,
         total_chunks_in_chapter |-> Len(docs)]]

RECURSIVE ChunkLoop(_, _, _)
\* the for loop of lines 155-170, from chapter c on
ChunkLoop(chs, c, out) ==
    IF c > Len(chs) THEN out
    ELSE ChunkLoop(chs, c + 1, out \o chapter_chunks(chs[c], Len(out)))

\* GutenbergDownloader._create_text_chunks, lines 138-172
create_text_chunks(chs) == ChunkLoop(chs, 1, <<>>)

\* the chunker has not run / has returned v
NotChunked == [done |-> FALSE, list |-> <<>>]
Chunked(v) == [done |-> TRUE, list |-> v]

\* a call of _create_text_chunks on the cleaned text
CreateTextChunks ==
    /\ ~all_chunks.done
    /\ all_chunks' = Chunked(create_text_chunks(chapters))
    /\ UNCHANGED <<chapters, weather_call, report, agentVars, indexVars, chatVars>>

(* ============================== the tools ============================= *)

\* how the capabilities behave during a run: all work; the geocoder knows no
\* such place; the geocoding request fails; the weather request fails; the
\* weather capability raises into the tool; the embedding or index search
\* raises inside similarity_search
CapEnvs == {"ok", "geo_empty", "geo_error", "fetch_error", "weather_raise", "search_error"}

\* WeatherService.get_coordinates, weather_service.py lines 22-64: None when
\* the place is unknown and None when the request fails
get_coordinates(env) ==
    IF env \in {"geo_empty", "geo_error"} THEN None ELSE "coords"

\* WeatherService.get_weather_by_coordinates, lines 121-176: None on any error
get_weather_by_coordinates(env) ==
    IF env = "fetch_error" THEN None ELSE "weather_info"

\* the get_weather tool, weather_tool.py lines 31-55: the text it returns
get_weather(env) ==
    IF env = "weather_raise" THEN "weather_error"
    ELSE IF get_coordinates(env) = None THEN "location_not_found"
    ELSE IF get_weather_by_coordinates(env) = None THEN "weather_unavailable"
    ELSE "weather_report"

\* no weather call made, nothing returned
NoWeatherCall == [units |-> None, temp |-> 0, feels_like |-> 0, wind_speed |-> 0]
NoReport ==
    [text |-> None, temp |-> 0, temp_symbol |-> None, feels_like |-> 0,
     feels_symbol |-> None, wind_speed |-> 0, wind_unit |-> None]

\* a tool answer that is a plain text
TextReport(t) ==
    [text |-> t, temp |-> 0, temp_symbol |-> None, feels_like |-> 0,
     feels_symbol |-> None, wind_speed |-> 0, wind_unit |-> None]

\* the weather_info of get_weather_by_coordinates, lines 149-161: the API's
\* numbers and the units they were asked in
WeatherInfo(call) ==
    [temperature |-> call.temp, feels_like |-> call.feels_like,
     wind_speed |-> call.wind_speed, units |-> call.units]

\* mutant of format_weather_response: the wind is always given in m/s
format_weather_response_wind_metric(weather_info) ==
    LET temp_symbol == IF weather_info.units = "metric" THEN "°C"
                       ELSE IF weather_info.units = "imperial" THEN "°F" ELSE "K" IN
    [text |-> "weather_report",
     temp |-> weather_info.temperature, temp_symbol |-> temp_symbol,
     feels_like |-> weather_info.feels_like, feels_symbol |-> temp_symbol,
     wind_speed |-> weather_info.wind_speed, wind_unit |-> "m/s"]

\* WeatherService.format_weather_response, lines 178-212: the numbers of the
\* report and the symbols put after them
format_weather_response(weather_info) ==
    LET temp_symbol == IF weather_info.units = "metric" THEN "°C"
                       ELSE IF weather_info.units = "imperial" THEN "°F" ELSE "K"
        wind_unit == IF weather_info.units = "metric" THEN "m/s"
                     ELSE IF weather_info.units = "imperial" THEN "mph" ELSE "m/s" IN
    [text |-> "weather_report",
     temp |-> weather_info.temperature, temp_symbol |-> temp_symbol,
     feels_like |-> weather_info.feels_like, feels_symbol |-> temp_symbol,
     wind_speed |-> weather_info.wind_speed, wind_unit |-> wind_unit]

\* the get_weather tool called with units, weather_tool.py lines 31-55: the
\* formatted report when the weather was fetched, else the tool's text
get_weather_report(call, env) ==
    IF get_weather(env) = "weather_report"
    THEN format_weather_response(WeatherInfo(call))
    ELSE TextReport(get_weather(env))

\* a call of the get_weather tool
GetWeather ==
    /\ report = NoReport
    /\ report' = get_weather_report(weather_call, capEnv)
    /\ UNCHANGED <<chapters, all_chunks, weather_call, agentVars, indexVars, chatVars>>

\* "if not results" of twain_query_tool.py lines 41 and 99
NoResults(out) == out.docs = <<>>

\* the query_twain_book tool, twain_query_tool.py lines 35-71
query_twain_book(vs, env) ==
    LET out == similarity_search(vs, TOP_K_RESULTS, None, env = "search_error") IN
    IF out.kind = "raised" THEN "twain_error"
    ELSE IF NoResults(out) THEN "twain_not_found"
    ELSE "twain_passages"

\* the extract_locations_from_twain tool, twain_query_tool.py lines 92-120
extract_locations_from_twain(vs, env) ==
    LET out == similarity_search(vs, TOP_K_RESULTS, None, env = "search_error") IN
    IF out.kind = "raised" THEN "locations_error"
    ELSE IF NoResults(out) THEN "locations_not_found"
    ELSE "locations_passages"

\* tools = [get_weather, query_twain_book, extract_locations_from_twain],
\* travel_agent.py line 20
ToolNames == {"get_weather", "query_twain_book", "extract_locations_from_twain"}

\* a tool invoked by name: the string it returns
InvokeTool(name, vs, env) ==
    IF name = "get_weather" THEN get_weather(env)
    ELSE IF name = "query_twain_book" THEN query_twain_book(vs, env)
    ELSE extract_locations_from_twain(vs, env)

(* ========================= the orchestration run ====================== *)

Msg(role, content, calls, id, name) ==
    [role |-> role, content |-> content, tool_calls |-> calls, tool_call_id |-> id,
     name |-> name]

NoId == <<0, 0>>

HumanMessage(c) == Msg("human", c, <<>>, NoId, None)
AIMessage(c, calls) == Msg("ai", c, calls, NoId, None)
ToolMessage(c, id, name) == Msg("tool", c, <<>>, id, name)

\* stored history entries: two well-formed ones, one without is_user, one
\* without content
H_user == [content |-> "h1", is_user |-> TRUE]
H_ai == [content |-> "h2", is_user |-> FALSE]
H_noflag == [content |-> "h3"]
H_nocontent == [is_user |-> TRUE]

Histories == {<<>>, <<H_user, H_ai>>, <<H_noflag>>, <<H_user, H_nocontent>>}

KeyError == "KeyError"

\* msg['is_user'] and msg['content'] of lines 34-37 both succeed
HasFields(msg) == {"is_user", "content"} \subseteq DOMAIN msg

\* mutant of convert_history_to_messages: every stored message becomes a user
\* message
convert_history_to_messages_all_human(h) ==
    IF \E i \in 1..Len(h) : ~HasFields(h[i])
    THEN [raised |-> TRUE, list |-> <<>>]
    ELSE [raised |-> FALSE, list |-> [i \in 1..Len(h) |-> HumanMessage(h[i].content)]]

\* AgentRunner._convert_history_to_messages, agent_run.py lines 21-38
convert_history_to_messages(h) ==
    IF \E i \in 1..Len(h) : ~HasFields(h[i])
    THEN [raised |-> TRUE, list |-> <<>>]
    ELSE [raised |-> FALSE,
          list |-> [i \in 1..Len(h) |->
                      IF h[i].is_user THEN HumanMessage(h[i].content)
                      ELSE AIMessage(h[i].content, <<>>)]]

\* the two strings run returns when it has no answer (lines 84 and 88)
NO_RESPONSE == "I'm sorry, I couldn't generate a response. Please try again."
ERROR_RESPONSE == "I apologize, but I encountered an error while processing your request. Please try again."

\* what run gave its caller; line: the statement of run that ended it
NoResult == [kind |-> "none", value |-> None, line |-> 0]
RunReturned(v, line) == [kind |-> "returned", value |-> v, line |-> line]
RunRaised(e, line) == [kind |-> "raised", value |-> e, line |-> line]

\* lines 79-84: the content of the last message of the graph's final state
ExtractFinal(msgs) ==
    IF Len(msgs) > 0 THEN msgs[Len(msgs)].content ELSE NO_RESPONSE

\* the tool-call lists a model response may carry
CallLists == UNION {[1..n -> ToolNames] : n \in 1..MaxCalls}

\* the tool calls of a response: the names, each with a fresh call id
ToolCalls(names, step) ==
    [i \in 1..Len(names) |-> [name |-> names[i], id |-> <<step, i>>]]

\* mutant of should_continue: the run ends whatever the last message holds
should_continue_always_end(msgs) == "end"

\* should_continue, travel_agent.py lines 49-57
should_continue(msgs) ==
    IF msgs[Len(msgs)].tool_calls # <<>> THEN "tools" ELSE "end"

\* AgentRunner.run, lines 54-72: the limit is set, the history converted
\* (outside the try of line 74) and the query appended
RunStart ==
    /\ pc = "start"
    /\ LET conv == IF history # <<>> THEN convert_history_to_messages(history)
                   ELSE [raised |-> FALSE, list |-> <<>>] IN
       IF conv.raised
       THEN /\ result' = RunRaised(KeyError, 65)
            /\ pc' = "done"
            /\ UNCHANGED messages
       ELSE /\ messages' = Append(conv.list, HumanMessage("query"))
            /\ pc' = "agent"
            /\ UNCHANGED result
    /\ UNCHANGED <<limit, history, steps, completed, capEnv, trail, invoked, indexVars, textVars, chatVars>>

\* mutant of AgentAppend: the response replaces the message list
AgentAppend_replacing(msgs, content, calls) ==
    LET next == <<AIMessage(content, calls)>> IN
    [messages |-> next, pc |-> should_continue(next)]

\* what follows the model's answer in twain_agent: the response is appended
\* (line 46) and should_continue picks the edge
AgentAppend(msgs, content, calls) ==
    LET next == Append(msgs, AIMessage(content, calls)) IN
    [messages |-> next, pc |-> should_continue(next)]

\* mutant of WithinLimit: one super-step too many
WithinLimit_inclusive(n, l) == n <= l

\* the compiled graph runs under config["recursion_limit"] (lines 55-56, 76):
\* another super-step may run while fewer than the limit have run
WithinLimit(n, l) == n < l

\* the system message of line 40
SystemMessage == Msg("system", "TRAVEL_AGENT_SYSTEM_PROMPT", <<>>, NoId, None)

\* mutant of messages_with_system: the model gets the state's messages only
messages_with_system_missing(msgs) == msgs

\* messages_with_system of line 41: what the model is invoked with
messages_with_system(msgs) == <<SystemMessage>> \o msgs

\* the agent node, twain_agent (lines 35-46): the model answers with tool
\* calls, answers without, or raises; a raise leaves the graph and is caught
\* by run (lines 86-88)
AgentNode ==
    /\ pc = "agent"
    /\ WithinLimit(steps, limit)
    /\ steps' = steps + 1
    /\ trail' = Append(trail, "agent")
    /\ \/ \E names \in CallLists :
            LET a == AgentAppend(messages, "", ToolCalls(names, steps + 1)) IN
            /\ messages' = a.messages
            /\ pc' = a.pc
            /\ UNCHANGED result
       \/ LET a == AgentAppend(messages, "answer", <<>>) IN
            /\ messages' = a.messages
            /\ pc' = a.pc
            /\ UNCHANGED result
       \/ /\ pc' = "done"
          /\ result' = RunReturned(ERROR_RESPONSE, 88)
          /\ UNCHANGED messages
    /\ invoked' = Append(invoked, messages_with_system(messages))
    /\ UNCHANGED <<limit, history, completed, capEnv, indexVars, textVars, chatVars>>

PendingCalls == messages[Len(messages)].tool_calls

\* the tools node, ToolNode(tools) (line 65), starts: one task per tool call
\* of the last message
ToolNodeStart ==
    /\ pc = "tools"
    /\ WithinLimit(steps, limit)
    /\ steps' = steps + 1
    /\ trail' = Append(trail, "tools")
    /\ completed' = <<>>
    /\ pc' = "toolrun"
    /\ UNCHANGED <<limit, history, messages, result, capEnv, invoked, indexVars, textVars, chatVars>>

InSeq(x, s) == \E j \in 1..Len(s) : s[j] = x

\* one of the concurrently running tool calls returns
ToolCallComplete(i) ==
    /\ pc = "toolrun"
    /\ i \in 1..Len(PendingCalls)
    /\ ~InSeq(i, completed)
    /\ completed' = Append(completed, i)
    /\ UNCHANGED <<pc, limit, history, messages, steps, result, capEnv, trail, invoked, indexVars, textVars, chatVars>>

\* mutant of tool_node_outputs: only the first tool call is answered
tool_node_outputs_first_only(calls, done, vs, env) ==
    [j \in 1..Min(1, Len(calls)) |->
        ToolMessage(InvokeTool(calls[j].name, vs, env), calls[j].id, calls[j].name)]

\* mutant of tool_node_outputs: the messages are in the order of completion
tool_node_outputs_by_completion(calls, done, vs, env) ==
    [j \in 1..Len(calls) |->
        ToolMessage(InvokeTool(calls[done[j]].name, vs, env),
                    calls[done[j]].id, calls[done[j]].name)]

\* the tool messages the tools node returns: one per tool call, in the order
\* of the calls, whatever order they completed in
tool_node_outputs(calls, done, vs, env) ==
    [j \in 1..Len(calls) |-> ToolMessage(InvokeTool(calls[j].name, vs, env), calls[j].id, calls[j].name)]

\* the tools node ends: its messages are appended, the edge leads to agent
\* (line 77)
ToolNodeCollect ==
    /\ pc = "toolrun"
    /\ Len(completed) = Len(PendingCalls)
    /\ messages' = messages \o tool_node_outputs(PendingCalls, completed,
                                                  vector_store["i1"], capEnv)
    /\ pc' = "agent"
    /\ UNCHANGED <<limit, history, steps, completed, result, capEnv, trail, invoked, indexVars, textVars, chatVars>>

\* the graph ran recursion_limit super-steps without reaching END:
\* GraphRecursionError, caught by run (lines 86-88)
RecursionLimit ==
    /\ pc \in {"agent", "tools", "end"}
    /\ ~WithinLimit(steps, limit)
    /\ pc' = "done"
    /\ result' = RunReturned(ERROR_RESPONSE, 88)
    /\ UNCHANGED <<limit, history, messages, steps, completed, capEnv, trail, invoked, indexVars, textVars, chatVars>>

\* invoke returns the final state; run returns its last message's content
\* (lines 78-84)
InvokeReturn ==
    /\ pc = "end"
    /\ pc' = "done"
    /\ result' = RunReturned(ExtractFinal(messages), 82)
    /\ UNCHANGED <<limit, history, messages, steps, completed, capEnv, trail, invoked, indexVars, textVars, chatVars>>

(* ========================== the specifications ======================== *)

\* no chunking and no weather report under way
(* ====================== chat service and routes ======================= *)

\* utils/constants.py
HTTP_OK == 200
HTTP_BAD_REQUEST == 400
HTTP_NOT_FOUND == 404
HTTP_INTERNAL_SERVER_ERROR == 500
AGENT_ERROR_RESPONSE == "I apologize, but I encountered an error while processing your request. Please try again."

\* the callers of add_message: the request handler and another client
Callers == {"R", "X"}

\* the tables of init_db (database.py lines 52-71), without the title of a
\* conversation, which no call decides on; and a ghost: recent, the ids of
\* the conversations, the one created or added to last first
EmptyDb == [convs |-> <<>>, msgs |-> <<>>, recent |-> <<>>]
Conversation(id, t) == [id |-> id, created_at |-> t, updated_at |-> t]
Message(id, c, content, is_user, t) ==
    [id |-> id, conversation_id |-> c, content |-> content, is_user |-> is_user,
     timestamp |-> t]

NoRow == Message(0, 0, None, FALSE, 0)
NoTxn == [open |-> FALSE, row |-> NoRow]
Pending(row) == [open |-> TRUE, row |-> row]

\* what a service call gave: a value, rows, or an exception
Ok(v) == [kind |-> "returned", value |-> v, rows |-> <<>>]
Rows(r) == [kind |-> "returned", value |-> 0, rows |-> r]
Fail(v) == [kind |-> "raised", value |-> v, rows |-> <<>>]

\* the rows a DELETE matched and the rows its cascade removed (a ghost)
NoMatch == [convs |-> 0, msgs |-> 0]

NoChat == [op |-> None, conv |-> 0, out |-> [kind |-> "none", value |-> 0, rows |-> <<>>],
           status |-> 0, matched |-> NoMatch]

NoReq ==
    [pc |-> "idle", object |-> TRUE, message |-> None, conversation_id |-> 0,
     conv |-> 0, history |-> <<>>, model_input |-> <<>>, response |-> None,
     agent |-> NoResult, status |-> 0, calls |-> <<>>, saved |-> <<>>]

IdleChat ==
    /\ db = EmptyDb
    /\ serial = [conv |-> 1, msg |-> 1]
    /\ now = 0
    /\ used = 0
    /\ txn = [a \in Callers |-> NoTxn]
    /\ req = NoReq
    /\ chatOut = NoChat

(* ---------------------------- ChatService ----------------------------- *)

Range(f) == {f[i] : i \in DOMAIN f}
ConvIds(d) == {d.convs[i].id : i \in DOMAIN d.convs}

\* get_db_connection, database.py lines 32-36: getconn raises when every
\* connection of the pool is checked out
PoolExhausted == used >= MaxPool

\* the orders a query may return a set of rows in
Orderings(S) ==
    {f \in [1..Cardinality(S) -> S] : \A i, j \in 1..Cardinality(S) : i # j => f[i] # f[j]}

\* INSERT INTO conversations ... RETURNING id, chat_service.py lines 25-28
insert_conversation(d, id, t) ==
    [d EXCEPT !.convs = Append(@, Conversation(id, t)), !.recent = <<id>> \o @]

\* create_conversation, lines 11-40: the outcomes of a call. An exception
\* after getconn propagates (line 40) and the connection is not released
create_conversation ==
    IF PoolExhausted
    THEN {[db |-> db, serial |-> serial, used |-> used, out |-> Fail(0)]}
    ELSE {[db |-> insert_conversation(db, serial.conv, now),
           serial |-> [serial EXCEPT !.conv = @ + 1],
           used |-> used, out |-> Ok(serial.conv)],
          [db |-> db, serial |-> serial, used |-> used + 1, out |-> Fail(0)]}

\* SELECT ... FROM conversations ORDER BY updated_at DESC, line 54: rows with
\* equal updated_at come in an order the database chooses
select_conversations(d) ==
    {f \in Orderings(Range(d.convs)) :
        \A i, j \in DOMAIN f : i < j => f[i].updated_at >= f[j].updated_at}

\* get_all_conversations, lines 42-74: an exception is answered by [] (line
\* 74), the connection not released
get_all_conversations ==
    IF PoolExhausted THEN {[used |-> used, out |-> Rows(<<>>)]}
    ELSE {[used |-> used, out |-> Rows(f)] : f \in select_conversations(db)}
         \cup {[used |-> used + 1, out |-> Rows(<<>>)]}

\* the dictionary of lines 101-106
history_entry(m) ==
    [id |-> m.id, content |-> m.content, is_user |-> m.is_user, timestamp |-> m.timestamp]

\* SELECT ... WHERE conversation_id = %s ORDER BY timestamp ASC, lines 90-95:
\* rows with equal timestamp come in an order the database chooses
select_history(d, c) ==
    LET rows == {m \in Range(d.msgs) : m.conversation_id = c} IN
    {[i \in DOMAIN f |-> history_entry(f[i])] :
        f \in {g \in Orderings(rows) :
                 \A i, j \in DOMAIN g : i < j => g[i].timestamp <= g[j].timestamp}}

\* get_conversation_history, lines 76-115: an exception is answered by []
get_conversation_history(c) ==
    IF PoolExhausted THEN {[used |-> used, out |-> Rows(<<>>)]}
    ELSE {[used |-> used, out |-> Rows(h)] : h \in select_history(db, c)}
         \cup {[used |-> used + 1, out |-> Rows(<<>>)]}

\* the row lock an open add_message transaction holds on its conversation
\* (its UPDATE of line 141, and the key share of its INSERT)
Locked(c) == \E a \in Callers : txn[a].open /\ txn[a].row.conversation_id = c

\* mutant of after_insert: the INSERT is committed on its own
after_insert_autocommit(d, row) == [d EXCEPT !.msgs = Append(@, row)]

\* the committed tables after the INSERT of lines 134-137, which runs in the
\* transaction of the connection: nothing is visible before the commit
after_insert(d, row) == d

\* add_message, lines 130-144: getconn, the INSERT (the foreign key of
\* database.py line 69 rejects an unknown conversation) and the UPDATE of
\* updated_at, all in one open transaction whose CURRENT_TIMESTAMP is its
\* start; an exception propagates (line 154) with the connection kept
begin_add(c, content, is_user) ==
    LET row == Message(serial.msg, c, content, is_user, now)
        next == [serial EXCEPT !.msg = @ + 1]
        raised == [db |-> db, serial |-> next, used |-> used + 1, txn |-> NoTxn,
                   out |-> Fail(row.id)] IN
    IF PoolExhausted
    THEN {[db |-> db, serial |-> serial, used |-> used, txn |-> NoTxn, out |-> Fail(0)]}
    ELSE IF c \notin ConvIds(db) THEN {raised}
    ELSE {[db |-> after_insert(db, row), serial |-> next, used |-> used + 1,
           txn |-> Pending(row), out |-> Ok(row.id)],
          raised}

\* the UPDATE of lines 141-144, as the commit makes it visible
touch(convs, c, t) ==
    [i \in DOMAIN convs |->
        IF convs[i].id = c THEN [convs[i] EXCEPT !.updated_at = t] ELSE convs[i]]

\* conn.commit(), line 146: the insert and the update become visible
commit_message(d, row) ==
    [convs |-> touch(d.convs, row.conversation_id, row.timestamp),
     msgs |-> Append(d.msgs, row),
     recent |-> <<row.conversation_id>>
                \o SelectSeq(d.recent, LAMBDA c : c # row.conversation_id)]

\* add_message, lines 146-154: the commit and the release, or the commit
\* raises and the connection is kept
commit_add(row) ==
    {[db |-> commit_message(db, row), serial |-> serial, used |-> used - 1,
      out |-> Ok(row.id)],
     [db |-> db, serial |-> serial, used |-> used, out |-> Fail(row.id)]}

\* mutant of cascade: the messages of a deleted conversation stay
cascade_none(msgs, c) == msgs

\* FOREIGN KEY ... ON DELETE CASCADE, database.py line 69
cascade(msgs, c) == SelectSeq(msgs, LAMBDA m : m.conversation_id # c)

\* DELETE FROM conversations WHERE id = %s, line 170
delete_rows(d, c) ==
    [convs |-> SelectSeq(d.convs, LAMBDA r : r.id # c), msgs |-> cascade(d.msgs, c),
     recent |-> SelectSeq(d.recent, LAMBDA r : r # c)]

\* delete_conversation, lines 156-181: True after the commit whatever the
\* DELETE matched (line 177), False on an exception (line 181)
delete_conversation(c) ==
    IF PoolExhausted THEN {[db |-> db, used |-> used, out |-> Ok(0), matched |-> NoMatch]}
    ELSE {[db |-> delete_rows(db, c), used |-> used, out |-> Ok(1),
           matched |-> [convs |-> Len(db.convs) - Len(delete_rows(db, c).convs),
                        msgs |-> Len(db.msgs) - Len(cascade(db.msgs, c))]],
          [db |-> db, used |-> used + 1, out |-> Ok(0), matched |-> NoMatch]}

\* init_db, database.py lines 45-81: CREATE TABLE IF NOT EXISTS changes no
\* row; an exception propagates with the connection kept
init_db ==
    IF PoolExhausted THEN {[used |-> used, out |-> Fail(0)]}
    ELSE {[used |-> used, out |-> Ok(0)], [used |-> used + 1, out |-> Fail(0)]}

(* ----------------------- calls of another client ---------------------- *)

\* the call of the client that is watched, and what it gave; the calls of
\* the clients that are not watched leave no record
ChatCall(watch, op, c, out, status) ==
    IF watch THEN [op |-> op, conv |-> c, out |-> out, status |-> status, matched |-> NoMatch]
    ELSE chatOut

\* the present reading of the clock is on a row or in an open transaction
Stamped ==
    \/ \E i \in DOMAIN db.convs : now \in {db.convs[i].created_at, db.convs[i].updated_at}
    \/ \E i \in DOMAIN db.msgs : db.msgs[i].timestamp = now
    \/ \E a \in Callers : txn[a].open /\ txn[a].row.timestamp = now

\* the database clock moves on; timestamps are only compared, so a reading
\* that no row carries is not told from the next one
Tick ==
    /\ now < MaxTime
    /\ Stamped
    /\ now' = now + 1
    /\ UNCHANGED <<db, serial, used, txn, req, chatOut, agentVars, indexVars, textVars>>

\* POST /chat/new, chat_routes.py lines 199-204, answers without a service
\* call; this is a create_conversation call of another request
CreateConversation(watch) ==
    /\ serial.conv <= MaxConvs
    /\ \E o \in create_conversation :
         /\ db' = o.db
         /\ serial' = o.serial
         /\ used' = o.used
         /\ chatOut' = ChatCall(watch, "create_conversation", 0, o.out, 0)
    /\ UNCHANGED <<now, txn, req, agentVars, indexVars, textVars>>

GetAllConversations(watch) ==
    /\ \E o \in get_all_conversations :
         /\ used' = o.used
         /\ chatOut' = ChatCall(watch, "get_all_conversations", 0, o.out, 0)
    /\ UNCHANGED <<db, serial, now, txn, req, agentVars, indexVars, textVars>>

GetConversationHistory(watch, c) ==
    /\ \E o \in get_conversation_history(c) :
         /\ used' = o.used
         /\ chatOut' = ChatCall(watch, "get_conversation_history", c, o.out, 0)
    /\ UNCHANGED <<db, serial, now, txn, req, agentVars, indexVars, textVars>>

\* add_message up to its commit; a second transaction on the conversation
\* waits for the first one's row lock
AddMessage(watch, c, is_user) ==
    /\ ~txn["X"].open
    /\ serial.msg <= MaxMsgs
    /\ ~Locked(c)
    /\ \E o \in begin_add(c, "x", is_user) :
         /\ db' = o.db
         /\ serial' = o.serial
         /\ used' = o.used
         /\ txn' = [txn EXCEPT !["X"] = o.txn]
         /\ chatOut' = ChatCall(watch, "add_message", c, IF o.txn.open THEN NoChat.out ELSE o.out, 0)
    /\ UNCHANGED <<now, req, agentVars, indexVars, textVars>>

\* add_message from its commit on
AddMessageCommit(watch) ==
    /\ txn["X"].open
    /\ \E o \in commit_add(txn["X"].row) :
         /\ db' = o.db
         /\ serial' = o.serial
         /\ used' = o.used
         /\ chatOut' = ChatCall(watch, "add_message", txn["X"].row.conversation_id, o.out, 0)
    /\ txn' = [txn EXCEPT !["X"] = NoTxn]
    /\ UNCHANGED <<now, req, agentVars, indexVars, textVars>>

\* the status of DELETE /chat/conversations/<id>, chat_routes.py lines
\* 179-189, for what the service returned
delete_status(success) == IF success = 0 THEN HTTP_NOT_FOUND ELSE HTTP_OK

\* DELETE /chat/conversations/<id>; the DELETE statement waits for an open
\* transaction that holds the conversation's row
DeleteConversation(watch, c) ==
    /\ ~Locked(c)
    /\ \E o \in delete_conversation(c) :
         /\ db' = o.db
         /\ used' = o.used
         /\ chatOut' = IF watch
                        THEN [ChatCall(watch, "delete_conversation", c, o.out,
                                       delete_status(o.out.value))
                                EXCEPT !.matched = o.matched]
                        ELSE chatOut
    /\ UNCHANGED <<serial, now, txn, req, agentVars, indexVars, textVars>>

InitDb(watch) ==
    /\ \E o \in init_db :
         /\ used' = o.used
         /\ chatOut' = ChatCall(watch, "init_db", 0, o.out, 0)
    /\ UNCHANGED <<db, serial, now, txn, req, agentVars, indexVars, textVars>>

(* ------------------------- POST /chat/message ------------------------- *)

\* mutant of send_message_order: the user message is saved before the
\* history is read
send_message_order_save_first == <<"create", "save_user", "history", "agent", "save_ai">>

\* the service and agent calls of send_message in the order of its
\* statements: lines 69-74, 77, 80, 83-99, 102
send_message_order == <<"create", "history", "save_user", "agent", "save_ai">>

StepAfter(p) ==
    LET i == CHOOSE k \in DOMAIN send_message_order : send_message_order[k] = p IN
    IF i = Len(send_message_order) THEN "done" ELSE send_message_order[i + 1]

\* the handler goes on to its next statement; after the last one it answers
\* 200 with the response and the conversation id (lines 104-107)
Proceed(r) ==
    LET p == StepAfter(r.pc) IN
    [r EXCEPT !.pc = p, !.status = IF p = "done" THEN HTTP_OK ELSE @]

\* the handler answers with an error status
Abort(r, status) == [r EXCEPT !.pc = "done", !.status = status]

Called(r, name) == [r EXCEPT !.calls = Append(@, name)]

\* what the agent run may give send_message
AgentOutcomes ==
    {RunReturned("answer", 82), RunReturned("", 82), RunReturned(ERROR_RESPONSE, 88),
     RunRaised(KeyError, 65)}

\* mutant of agent_response: an empty answer is passed on
agent_response_unchecked(out) ==
    IF out.kind = "raised" THEN AGENT_ERROR_RESPONSE ELSE out.value

\* lines 83-99: the response is what the run gave, the fixed error response
\* when that is empty or the run raised
agent_response(out) ==
    IF out.kind = "raised" \/ out.value = "" THEN AGENT_ERROR_RESPONSE ELSE out.value

\* AgentRunner.run, agent_run.py lines 58-72: the messages the graph starts
\* from for a history and a query
run_input(h, query) ==
    LET conv == IF h # <<>> THEN convert_history_to_messages(h)
                ELSE [raised |-> FALSE, list |-> <<>>] IN
    IF conv.raised THEN <<>> ELSE Append(conv.list, HumanMessage(query))

\* lines 59-67: the body is read; a body that is no JSON object makes
\* get_json or data.get raise, which the handler answers with 500 (lines
\* 109-114); no message, or an empty one, is answered with 400
Post(object, message, cid) ==
    /\ req.pc = "idle"
    /\ LET r == [NoReq EXCEPT !.object = object, !.message = message,
                              !.conversation_id = cid] IN
       req' = IF ~object THEN Abort(r, HTTP_INTERNAL_SERVER_ERROR)
              ELSE IF message \in {None, ""} THEN Abort(r, HTTP_BAD_REQUEST)
              ELSE [r EXCEPT !.pc = send_message_order[1]]
    /\ UNCHANGED <<db, serial, now, used, txn, chatOut, agentVars, indexVars, textVars>>

\* lines 69-74: a conversation is created when the request names none
SendCreate ==
    /\ req.pc = "create"
    /\ IF req.conversation_id = 0
       THEN /\ serial.conv <= MaxConvs
            /\ \E o \in create_conversation :
                 /\ db' = o.db
                 /\ serial' = o.serial
                 /\ used' = o.used
                 /\ req' = IF o.out.kind = "raised"
                           THEN Abort(Called(req, "create_conversation"),
                                      HTTP_INTERNAL_SERVER_ERROR)
                           ELSE Proceed([Called(req, "create_conversation")
                                           EXCEPT !.conv = o.out.value])
       ELSE /\ req' = Proceed([req EXCEPT !.conv = req.conversation_id])
            /\ UNCHANGED <<db, serial, used>>
    /\ UNCHANGED <<now, txn, chatOut, agentVars, indexVars, textVars>>

\* line 77
SendHistory ==
    /\ req.pc = "history"
    /\ \E o \in get_conversation_history(req.conv) :
         /\ used' = o.used
         /\ req' = Proceed([Called(req, "get_conversation_history")
                              EXCEPT !.history = o.out.rows])
    /\ UNCHANGED <<db, serial, now, txn, chatOut, agentVars, indexVars, textVars>>

\* lines 80 and 102: add_message up to its commit
SendSave ==
    /\ req.pc \in {"save_user", "save_ai"}
    /\ ~txn["R"].open
    /\ serial.msg <= MaxMsgs
    /\ ~Locked(req.conv)
    /\ \E o \in begin_add(req.conv,
                          IF req.pc = "save_user" THEN req.message ELSE req.response,
                          req.pc = "save_user") :
         /\ db' = o.db
         /\ serial' = o.serial
         /\ used' = o.used
         /\ txn' = [txn EXCEPT !["R"] = o.txn]
         /\ req' = IF o.out.kind = "raised"
                   THEN Abort(Called(req, "add_message"), HTTP_INTERNAL_SERVER_ERROR)
                   ELSE Called(req, "add_message")
    /\ UNCHANGED <<now, chatOut, agentVars, indexVars, textVars>>

\* lines 80 and 102: add_message from its commit on
SendSaveCommit ==
    /\ req.pc \in {"save_user", "save_ai"}
    /\ txn["R"].open
    /\ \E o \in commit_add(txn["R"].row) :
         /\ db' = o.db
         /\ serial' = o.serial
         /\ used' = o.used
         /\ req' = IF o.out.kind = "raised"
                   THEN Abort(req, HTTP_INTERNAL_SERVER_ERROR)
                   ELSE Proceed([req EXCEPT !.saved = Append(@, txn["R"].row)])
    /\ txn' = [txn EXCEPT !["R"] = NoTxn]
    /\ UNCHANGED <<now, chatOut, agentVars, indexVars, textVars>>

\* lines 83-99: the agent runs on the history and the message
SendAgent ==
    /\ req.pc = "agent"
    /\ \E out \in AgentOutcomes :
         req' = Proceed([Called(req, "agent_runner.run")
                           EXCEPT !.model_input = run_input(req.history, req.message),
                                  !.agent = out,
                                  !.response = agent_response(out)])
    /\ UNCHANGED <<db, serial, now, used, txn, chatOut, agentVars, indexVars, textVars>>

IdleText ==
    /\ chapters = <<>>
    /\ all_chunks = NotChunked
    /\ weather_call = NoWeatherCall
    /\ report = NoReport

\* the book the agent run is served from
AgentBook == <<Doc(1, "I"), Doc(2, "II")>>

InitAgent ==
    /\ pc = "start"
    /\ limit \in 1..MaxLimit
    /\ history \in Histories
    /\ messages = <<>>
    /\ steps = 0
    /\ completed = <<>>
    /\ result = NoResult
    /\ capEnv \in CapEnvs
    /\ trail = <<>>
    /\ invoked = <<>>
    /\ IdleText
    /\ IdleChat
    /\ corpus = AgentBook
    /\ chunkFile = "present"
    /\ diskIndex = Valid(AgentBook)
    /\ svc = [i \in Instances |-> IF i = "i1" THEN "ready" ELSE "absent"]
    /\ vector_store = [i \in Instances |-> IF i = "i1" THEN Store(AgentBook) ELSE NoStore]
    /\ path = [i \in Instances |-> IF i = "i1" THEN <<"load", "valid">> ELSE NoPath]
    /\ searchOut = NoCall

NextAgent ==
    \/ RunStart
    \/ AgentNode
    \/ ToolNodeStart
    \/ \E i \in 1..MaxCalls : ToolCallComplete(i)
    \/ ToolNodeCollect
    \/ RecursionLimit
    \/ InvokeReturn

SpecAgent == InitAgent /\ [][NextAgent]_vars

IdleAgent ==
    /\ pc = "done"
    /\ limit = 1
    /\ history = <<>>
    /\ messages = <<>>
    /\ steps = 0
    /\ completed = <<>>
    /\ result = NoResult
    /\ capEnv = "ok"
    /\ trail = <<>>
    /\ invoked = <<>>

\* the books of the life-cycle specification: up to MaxChunks chunks, the
\* first of chapter I and the others of chapter II
Books == {[i \in 1..n |-> IF i = 1 THEN "I" ELSE "II"] : n \in 1..MaxChunks}

BookDocs(b) == [i \in 1..Len(b) |-> Doc(i, b[i])]

InitIndex ==
    /\ IdleAgent
    /\ IdleText
    /\ IdleChat
    /\ \E b \in Books : corpus = BookDocs(b)
    /\ chunkFile \in {"absent", "empty", "present"}
    /\ diskIndex \in {Absent, Corrupt, Valid(corpus)}
    /\ svc = [i \in Instances |-> "absent"]
    /\ vector_store = [i \in Instances |-> NoStore]
    /\ path = [i \in Instances |-> NoPath]
    /\ searchOut = NoCall

NextIndex ==
    \E i \in Instances :
        \/ Construct(i)
        \/ LoadEmbeddings(i)
        \/ EnsureBook(i)
        \/ LoadIndex(i)
        \/ BuildIndex(i)
        \/ SaveBegin(i)
        \/ SaveEnd(i)
        \/ \E k \in 1..MaxK, f \in Filters, fails \in BOOLEAN : Search(i, k, f, fails)
        \/ \E k \in 1..MaxK, fails \in BOOLEAN : SearchWithScore(i, k, fails)
        \/ \E k \in 1..MaxK : GetRetriever(i, k)

SpecIndex == InitIndex /\ [][NextIndex]_vars

RECURSIVE SubsetsUpTo(_, _)
\* the subsets of S with at most m elements
SubsetsUpTo(S, m) ==
    IF m = 0 THEN {{}}
    ELSE LET P == SubsetsUpTo(S, m - 1) IN P \cup {p \cup {x} : p \in P, x \in S}

\* an index of n entries, those at the ranks in S being of chapter "I"
RankedIndex(n, S) == [i \in 1..n |-> Doc(i, IF i \in S THEN "I" ELSE "II")]

InitSearch ==
    /\ IdleAgent
    /\ IdleText
    /\ IdleChat
    /\ \E n \in 1..MaxIndex : \E S \in SubsetsUpTo(1..n, MaxMatch) :
          corpus = RankedIndex(n, S)
    /\ chunkFile = "present"
    /\ diskIndex = Valid(corpus)
    /\ svc = [i \in Instances |-> IF i = "i1" THEN "ready" ELSE "absent"]
    /\ vector_store = [i \in Instances |-> IF i = "i1" THEN Store(corpus) ELSE NoStore]
    /\ path = [i \in Instances |-> IF i = "i1" THEN <<"load", "valid">> ELSE NoPath]
    /\ searchOut = NoCall

\* the k of a search: any integer the caller passes
Ks == {-1, 0} \cup 1..MaxK

NextSearch ==
    \E k \in Ks, f \in Filters, fails \in BOOLEAN : Search("i1", k, f, fails)

SpecSearch == InitSearch /\ [][NextSearch]_vars

\* most chapters of a book in the chunker specification
MaxChapters == 3

\* the chapter contents of the chunker specification: empty, one short word,
\* 50, 10 and 1500 characters, two words that do not fit one chunk, a word of
\* the chunk size after a short one
Contents ==
    {<<>>, <<3>>, <<24, 25>>, <<4, 5>>, <<499, 500, 499>>, <<600, 600>>, <<3, 1000>>}

ChapterNumbers == <<"I", "II", "III", "IV", "V">>

Documents ==
    UNION {{[c \in 1..n |-> Chapter(ChapterNumbers[c], f[c])] : f \in [1..n -> Contents]}
           : n \in 0..MaxChapters}

InitChunk ==
    /\ IdleAgent
    /\ corpus = <<>>
    /\ chunkFile = "absent"
    /\ diskIndex = Absent
    /\ svc = [i \in Instances |-> "absent"]
    /\ vector_store = [i \in Instances |-> NoStore]
    /\ path = [i \in Instances |-> NoPath]
    /\ searchOut = NoCall
    /\ chapters \in Documents
    /\ all_chunks = NotChunked
    /\ weather_call = NoWeatherCall
    /\ report = NoReport
    /\ IdleChat

NextChunk == CreateTextChunks

SpecChunk == InitChunk /\ [][NextChunk]_vars

\* the units a get_weather call may name: the three of the API and another
UnitSystems == {"metric", "imperial", "standard", "kelvin"}

\* largest number the weather API answers in the weather specification
MaxReading == 2

InitWeather ==
    /\ pc = "done"
    /\ limit = 1
    /\ history = <<>>
    /\ messages = <<>>
    /\ steps = 0
    /\ completed = <<>>
    /\ result = NoResult
    /\ capEnv \in CapEnvs
    /\ trail = <<>>
    /\ invoked = <<>>
    /\ corpus = <<>>
    /\ chunkFile = "absent"
    /\ diskIndex = Absent
    /\ svc = [i \in Instances |-> "absent"]
    /\ vector_store = [i \in Instances |-> NoStore]
    /\ path = [i \in Instances |-> NoPath]
    /\ searchOut = NoCall
    /\ chapters = <<>>
    /\ all_chunks = NotChunked
    /\ \E u \in UnitSystems, t \in 0..MaxReading, f \in 0..MaxReading, w \in 0..MaxReading :
          weather_call = [units |-> u, temp |-> t, feels_like |-> f, wind_speed |-> w]
    /\ report = NoReport
    /\ IdleChat

NextWeather == GetWeather

SpecWeather == InitWeather /\ [][NextWeather]_vars

(* --------------------------- SpecChat --------------------------------- *)

\* the bodies posted: no JSON object; an object without message, with an
\* empty one, or with a message; for no conversation ("new" or none) or a
\* conversation id
Bodies ==
    {[object |-> FALSE, message |-> None, conversation_id |-> 0]}
    \cup {[object |-> TRUE, message |-> m, conversation_id |-> c] :
            m \in {None, "", "hi"}, c \in 0..MaxConvs}

InitChat ==
    /\ IdleAgent
    /\ IdleText
    /\ IdleChat
    /\ corpus = <<>>
    /\ chunkFile = "absent"
    /\ diskIndex = Absent
    /\ svc = [i \in Instances |-> "absent"]
    /\ vector_store = [i \in Instances |-> NoStore]
    /\ path = [i \in Instances |-> NoPath]
    /\ searchOut = NoCall

\* the calls of one watched client of ChatService, with an add_message in
\* two steps so that the other calls fall between its INSERT and its commit
NextStore ==
    \/ Tick
    \/ CreateConversation(TRUE)
    \/ GetAllConversations(TRUE)
    \/ \E c \in 1..MaxConvs : GetConversationHistory(TRUE, c)
    \/ \E c \in 1..MaxConvs : AddMessage(TRUE, c, TRUE)
    \/ AddMessageCommit(TRUE)
    \/ \E c \in 1..MaxConvs : DeleteConversation(TRUE, c)
    \/ InitDb(TRUE)

SpecStore == InitChat /\ [][NextStore]_vars

\* one POST /chat/message, statement by statement, among the writes of
\* other requests. The clock stands still: the handler reads no timestamp,
\* and with equal timestamps every order of the stored messages is a
\* possible answer of its history query
NextChat ==
    \/ CreateConversation(FALSE)
    \/ \E c \in 1..MaxConvs : AddMessage(FALSE, c, FALSE)
    \/ AddMessageCommit(FALSE)
    \/ \E c \in 1..MaxConvs : DeleteConversation(FALSE, c)
    \/ \E b \in Bodies : Post(b.object, b.message, b.conversation_id)
    \/ SendCreate
    \/ SendHistory
    \/ SendSave
    \/ SendSaveCommit
    \/ SendAgent

SpecChat == InitChat /\ [][NextChat]_vars

Spec == SpecAgent

(* ================================ claims =============================== *)

\* the messages appended during this run: those after the history and the query
RunMessages == SubSeq(messages, Len(history) + 2, Len(messages))

Count(s, x) == Cardinality({j \in 1..Len(s) : s[j] = x})

\* Reasoning steps and ToolDispatch steps the run has executed
Reasonings == Count(trail, "agent")
Dispatches == Count(trail, "tools")

AiResponses == {j \in 1..Len(RunMessages) : RunMessages[j].role = "ai"}

\* a Reasoning step ended in an exception of the model invocation
ModelRaised == Reasonings > Cardinality(AiResponses)

\* the run is over and every Reasoning step got a response with tool calls
EndedAlwaysCalling ==
    /\ pc = "done"
    /\ Reasonings >= 1
    /\ ~ModelRaised
    /\ \A j \in AiResponses : RunMessages[j].tool_calls # <<>>

C2_NeverRaises == result.kind # "raised"

RECURSIVE AnswersAfter(_, _)
AnswersAfter(msgs, p) ==
    IF p + 1 <= Len(msgs) /\ msgs[p + 1].role = "tool"
    THEN <<msgs[p + 1]>> \o AnswersAfter(msgs, p + 1)
    ELSE <<>>

\* message p is an assistant message all of whose requests are answered: the
\* tool messages right after it are as many as its requests, and each request
\* id keys exactly one of them
Answered(msgs, p) ==
    LET calls == msgs[p].tool_calls
        answers == AnswersAfter(msgs, p) IN
    /\ Len(answers) = Len(calls)
    /\ \A c \in 1..Len(calls) :
         Cardinality({a \in 1..Len(answers) :
                         answers[a].tool_call_id = calls[c].id}) = 1

\* C4: Reasoning and ToolDispatch alternate, starting with Reasoning; when a
\* Reasoning step is about to start, every tool-call request in the context
\* has exactly one tool message keyed by its call id, and every tool message
\* answers a request.
C4_Alternation ==
    /\ \A j \in 1..Len(trail) :
         trail[j] = (IF j % 2 = 1 THEN "agent" ELSE "tools")
    /\ pc = "agent" =>
         /\ \A p \in 1..Len(messages) :
              messages[p].role = "ai" => Answered(messages, p)
         /\ \A t \in 1..Len(messages) :
              messages[t].role = "tool" =>
                \E p \in 1..(t - 1) :
                  /\ messages[p].role = "ai"
                  /\ \E c \in 1..Len(messages[p].tool_calls) :
                       messages[p].tool_calls[c].id = messages[t].tool_call_id

C4_Witness ==
    /\ pc = "agent"
    /\ Dispatches = 1
    /\ Len(messages[Len(messages) - 2].tool_calls) = 2

CapabilityFailed(name, env) ==
    IF name = "get_weather"
    THEN env \in {"geo_error", "fetch_error", "weather_raise"}
    ELSE env = "search_error"

\* the tool texts that tell of an error
ErrorTexts == {"weather_error", "weather_unavailable", "twain_error", "locations_error"}

\* C6: a tool never raises; every failure of the capability behind it gives a
\* tool result that reports an error, and the run goes on to an answer string.
C6_ToolFailSoft ==
    /\ result.kind # "raised" \/ trail = <<>>
    /\ \A t \in 1..Len(messages) :
         (messages[t].role = "tool" /\ CapabilityFailed(messages[t].name, capEnv))
            => messages[t].content \in ErrorTexts

\* the index entries of the chapter a search filtered by
Matching(call) ==
    SelectSeq(call.store.docs, LAMBDA d : d.chapter_number = call.filter)

\* C7: a failure of the retrieval capability is never reported as an empty
\* but successful result: similarity_search returns an empty sequence only
\* when the query matched nothing.
C7_NoSilentFailure ==
    (/\ searchOut.op = "similarity_search"
     /\ searchOut.out.kind = "returned"
     /\ searchOut.out.docs = <<>>) => ~searchOut.fails

\* C8: a search (similarity_search, similarity_search_with_score,
\* get_retriever) on a service whose index was never built or loaded fails
\* with the not-initialized error and returns no results.
C8_NotInitialized ==
    (searchOut.op # None /\ ~searchOut.store.present) =>
        searchOut.out = Raised("ValueError: Vector store not initialized")

C8_Witness ==
    /\ searchOut.op = "similarity_search_with_score"
    /\ ~searchOut.store.present
    /\ svc[searchOut.inst] = "failed"

\* C9: loading from a persisted store that is unreadable or incomplete fails
\* (the instance's initialisation raises and it holds no index); an instance
\* whose initialisation succeeded, and any instance that holds an index,
\* holds a non-empty one.
C9_LoadFailsLoudly ==
    \A i \in Instances :
        /\ (path[i][1] = "load" /\ path[i][2] # "valid") =>
              (svc[i] = "failed" /\ ~vector_store[i].present)
        /\ svc[i] = "ready" => vector_store[i].present
        /\ vector_store[i].present => vector_store[i].docs # <<>>

C9_Witness ==
    \E i \in Instances :
        /\ path[i] = <<"load", "corrupt">>
        /\ svc[i] = "failed"

\* C10: with a chapter filter, every returned entry satisfies the filter and
\* the search returns min(k, number of matching index entries) results.
C10_FilteredSearch ==
    (/\ searchOut.op = "similarity_search"
     /\ searchOut.filter # None
     /\ searchOut.k >= 1
     /\ ~searchOut.fails
     /\ searchOut.out.kind = "returned") =>
        /\ \A j \in 1..Len(searchOut.out.docs) :
             searchOut.out.docs[j].chapter_number = searchOut.filter
        /\ Len(searchOut.out.docs) = Min(searchOut.k, Len(Matching(searchOut)))

\* C11: for every k >= 1 similarity_search returns at most k results and at
\* most as many as the index has entries; a k below 1 is not accepted (the
\* call raises instead of returning a list).
C11_KClamped ==
    (searchOut.op = "similarity_search" /\ ~searchOut.fails) =>
        IF searchOut.k >= 1
        THEN searchOut.out.kind = "returned" =>
               /\ Len(searchOut.out.docs) <= searchOut.k
               /\ Len(searchOut.out.docs) <= Len(searchOut.store.docs)
        ELSE searchOut.out.kind = "raised"

\* the two tools of the specification: the retrieval tool and the
\* location-weather tool
TwoTools == {"query_twain_book", "get_weather"}

\* C12: exactly two tools are registered, one retrieval tool and one
\* location-weather tool; no other tool name is requested and dispatched.
C12_TwoTools ==
    \A t \in 1..Len(messages) :
        /\ messages[t].role = "tool" => messages[t].name \in TwoTools
        /\ \A c \in 1..Len(messages[t].tool_calls) :
             messages[t].tool_calls[c].name \in TwoTools

\* the chunks of chapter c of the document, in output order
ChunksOf(c) ==
    SelectSeq(all_chunks.list, LAMBDA ch : ch.chapter_number = chapters[c].chapter_number)

\* the place of a chunk's chapter in the document
ChapterPos(ch) == CHOOSE c \in 1..Len(chapters) : chapters[c].chapter_number = ch.chapter_number

\* the ids of the output are 0..n-1 in output order
RunningIds ==
    \A i \in 1..Len(all_chunks.list) : all_chunks.list[i].id = i - 1

\* C13: chunk ids are one running counter over the whole document: the ids of
\* the output are exactly 0..n-1 in output order, the chunks of an earlier
\* chapter precede those of a later one, and chunk_index equals id.
C13_RunningIds ==
    all_chunks.done =>
        /\ RunningIds
        /\ \A i \in 1..Len(all_chunks.list) :
             /\ all_chunks.list[i].chunk_index = all_chunks.list[i].id
             /\ \A j \in (i + 1)..Len(all_chunks.list) :
                  ChapterPos(all_chunks.list[i]) <= ChapterPos(all_chunks.list[j])

C13_Witness ==
    /\ all_chunks.done
    /\ Len(chapters) = 3
    /\ Len(ChunksOf(1)) >= 2
    /\ Len(ChunksOf(3)) >= 2
    /\ all_chunks.list[Len(all_chunks.list)].id >= 4

\* C14: a section shorter than the maximum chunk length yields exactly one
\* chunk, an empty section yields none, and the ids stay consecutive across
\* an empty section; sections of 50, 1500 and 10 characters yield 1, at least
\* 2 and 1 chunks with the ids 0..n-1 in section order.
C14_EdgeCases ==
    all_chunks.done =>
        /\ RunningIds
        /\ \A c \in 1..Len(chapters) :
             LET len == TextLen(chapters[c].content) IN
             /\ len = 0 => Len(ChunksOf(c)) = 0
             /\ (0 < len /\ len < LANGCHAIN_CHUNK_SIZE) => Len(ChunksOf(c)) = 1
             /\ len = 1500 => Len(ChunksOf(c)) >= 2

C14_Witness ==
    /\ all_chunks.done
    /\ Len(chapters) = 3
    /\ TextLen(chapters[1].content) = 50
    /\ TextLen(chapters[2].content) = 1500
    /\ TextLen(chapters[3].content) = 10
    /\ Len(all_chunks.list) = 4

\* C15: for every section the chunks, in order, cover the section text: the
\* first starts at its first character, each next one starts inside or right
\* after the one before it, and the last ends at its last character, so that
\* the chunk texts less the overlaps are the section text.
C15_Coverage ==
    all_chunks.done =>
        \A c \in 1..Len(chapters) :
            LET cs == ChunksOf(c)
                len == TextLen(chapters[c].content) IN
            /\ len > 0 => cs # <<>>
            /\ cs # <<>> =>
                 /\ cs[1].position = 0
                 /\ cs[Len(cs)].position + cs[Len(cs)].length = len
                 /\ \A i \in 1..(Len(cs) - 1) :
                      cs[i + 1].position <= cs[i].position + cs[i].length

\* every message list handed to the model so far
Invocations == {invoked[j] : j \in 1..Len(invoked)}

\* C16: every model invocation of a run receives the system prompt as its
\* first message and nowhere else, then the prior conversation turns in their
\* stored order, then the user query, then the messages appended during the
\* run so far, in append order; the run's message sequence never holds the
\* system prompt.
C16_SystemPromptFirst ==
    /\ \A t \in 1..Len(messages) : messages[t].role # "system"
    /\ \A inv \in Invocations :
         /\ inv[1] = SystemMessage
         /\ \A t \in 2..Len(inv) : inv[t].role # "system"
         /\ Len(inv) >= Len(history) + 2
         /\ \A i \in 1..Len(history) :
              /\ inv[i + 1].content = history[i].content
              /\ inv[i + 1].role = (IF history[i].is_user THEN "human" ELSE "ai")
         /\ inv[Len(history) + 2] = HumanMessage("query")
         /\ Tail(inv) = SubSeq(messages, 1, Len(inv) - 1)

C16_Witness ==
    /\ Len(invoked) = 2
    /\ Len(history) = 2
    /\ invoked[2][Len(invoked[2])].role = "tool"

\* s is a prefix of t
IsPrefix(s, t) == Len(s) <= Len(t) /\ SubSeq(t, 1, Len(s)) = s

\* C17: the conversation context is append-only during a run: every step
\* leaves the previous message sequence as a prefix of the new one, and the
\* prior turns the caller supplied are never changed.
C17_AppendOnly ==
    [][IsPrefix(messages, messages') /\ history' = history]_vars

C17_Witness ==
    /\ Len(history) = 2
    /\ Dispatches >= 1
    /\ pc = "agent"
    /\ Len(messages) >= Len(history) + 3

\* C18: history conversion preserves length, order and content: the i-th
\* stored message becomes the i-th message, with the same content, a user
\* message when is_user is true and an assistant message otherwise.
C18_HistoryConversion ==
    (pc = "agent" /\ steps = 0) =>
        /\ Len(messages) = Len(history) + 1
        /\ \A i \in 1..Len(history) :
             messages[i] = (IF history[i].is_user
                            THEN HumanMessage(history[i].content)
                            ELSE AIMessage(history[i].content, <<>>))

C18_Witness ==
    /\ pc = "agent"
    /\ steps = 0
    /\ history = <<H_user, H_ai>>
    /\ messages[2].role = "ai"

\* C19: the weather tool writes temperature and wind with the symbols of the
\* requested unit system: metric gives °C and m/s, imperial °F and mph,
\* standard K and m/s; the feels-like temperature has the temperature's
\* symbol, and the numbers are those the API answered.
C19_UnitSymbols ==
    report.text = "weather_report" =>
        /\ report.feels_symbol = report.temp_symbol
        /\ report.temp = weather_call.temp
        /\ report.feels_like = weather_call.feels_like
        /\ report.wind_speed = weather_call.wind_speed
        /\ weather_call.units = "metric" =>
             (report.temp_symbol = "°C" /\ report.wind_unit = "m/s")
        /\ weather_call.units = "imperial" =>
             (report.temp_symbol = "°F" /\ report.wind_unit = "mph")
        /\ weather_call.units = "standard" =>
             (report.temp_symbol = "K" /\ report.wind_unit = "m/s")

C19_Witness ==
    /\ report.text = "weather_report"
    /\ weather_call.units = "imperial"
    /\ report.wind_unit = "mph"

\* C20: a search never observes a partially written index, and neither does
\* a load: whatever the interleaving of two instances' construction, saving
\* and loading, every search runs on no index or on a complete one, and every
\* load reads no index or a complete one.
C20_NoPartialIndex ==
    /\ \A i \in Instances :
         /\ ~(path[i][1] = "load" /\ path[i][2] = "partial")
         /\ vector_store[i].present => vector_store[i].docs = corpus
    /\ searchOut.store.present => searchOut.store.docs = corpus

\* the instances that built the index from the chunk file and wrote it to
\* the index directory
Saved == {i \in Instances : path[i][1] = "build" /\ svc[i] \in {"saving", "ready"}}

\* C29: the persisted index is built at most once: an initialisation that
\* finds the index directory loads it and reads no chunks, one that builds
\* found no directory, and over all initialisations at most one builds and
\* saves the index, every later one taking the load path.
C29_BuiltOnce ==
    /\ \A i \in Instances :
         /\ path[i][1] = "load" => path[i][2] # "absent"
         /\ path[i][1] = "build" => path[i][2] \in {"absent", "empty", "present"}
    /\ Cardinality(Saved) <= 1

(* ------------------- claims on the chat routes and store --------------- *)

\* the request carried no message: its body was no JSON object, or the
\* object had no message or an empty one
NoMessage == ~req.object \/ req.message \in {None, ""}

\* C21: a POST /chat/message without a (non-empty) message is answered with
\* 400, and the handler has made no service call and no agent call: no
\* conversation created, no message saved, the agent not invoked.
C21_MissingMessage400 ==
    (req.pc = "done" /\ NoMessage) =>
        /\ req.status = HTTP_BAD_REQUEST
        /\ req.calls = <<>>
        /\ req.saved = <<>>

\* the messages of conversation c in the order their add_message calls
\* committed them
AddedTo(c) == SelectSeq(db.msgs, LAMBDA m : m.conversation_id = c)

\* a get_conversation_history(c) call that got its connection and its rows
HistoryAnswered(c) ==
    GetConversationHistory(TRUE, c) /\ ~PoolExhausted /\ used' = used

\* C22: get_conversation_history returns the messages of the conversation,
\* all of them and no others, in the order in which add_message added them,
\* whatever the sequence of add_message calls was.
C22_HistoryInAddOrder ==
    [][\A c \in 1..MaxConvs :
          HistoryAnswered(c) =>
              chatOut'.out.rows = [i \in DOMAIN AddedTo(c) |-> history_entry(AddedTo(c)[i])]]_vars

\* the last watched call was a delete_conversation that returned True
DeleteSucceeded == chatOut.op = "delete_conversation" /\ chatOut.out.value = 1

\* C23: after delete_conversation(c) succeeds, c is in no answer of
\* get_all_conversations and no message with conversation_id c remains; and
\* in every reachable state each stored message belongs to an existing
\* conversation.
C23_DeleteCascades ==
    /\ \A i \in DOMAIN db.msgs : db.msgs[i].conversation_id \in ConvIds(db)
    /\ DeleteSucceeded =>
         /\ \A f \in select_conversations(db) : \A i \in DOMAIN f : f[i].id # chatOut.conv
         /\ \A i \in DOMAIN db.msgs : db.msgs[i].conversation_id # chatOut.conv

\* a conversation with messages was deleted while another one, with a
\* message, remains
C23_Witness ==
    /\ DeleteSucceeded
    /\ chatOut.matched.convs = 1
    /\ chatOut.matched.msgs >= 1
    /\ db.msgs # <<>>

\* a get_all_conversations call that got its connection and its rows
ListAnswered == GetAllConversations(TRUE) /\ ~PoolExhausted /\ used' = used

\* where x stands in a sequence without repetitions
Pos(seq, x) == CHOOSE i \in DOMAIN seq : seq[i] = x

HasMessage(c) == \E i \in DOMAIN db.msgs : db.msgs[i].conversation_id = c

\* C24: get_all_conversations lists the conversations by most recent update
\* first: after add_message on c, c comes before every conversation whose
\* last creation or message is older, whatever the sequence of
\* create_conversation and add_message calls was.
C24_MostRecentFirst ==
    [][ListAnswered =>
          LET ids == [i \in DOMAIN chatOut'.out.rows |-> chatOut'.out.rows[i].id] IN
          /\ Len(ids) = Len(db.recent)
          /\ \A c \in ConvIds(db), d \in ConvIds(db) :
                (HasMessage(c) /\ Pos(db.recent, c) < Pos(db.recent, d)) =>
                    Pos(ids, c) < Pos(ids, d)]_vars

\* the last watched call was an add_message that raised after its INSERT
\* had taken a message id
AddRaised ==
    chatOut.op = "add_message" /\ chatOut.out.kind = "raised" /\ chatOut.out.value # 0

\* the timestamp of the last message committed to conversation c
LastStamp(c) == AddedTo(c)[Len(AddedTo(c))].timestamp

\* C25: add_message is atomic. The message and the new updated_at become
\* visible by one commit: no message of an open transaction is visible, a
\* conversation with messages carries the timestamp of its last message, and
\* one without carries its creation time. When add_message raises, its
\* message is never visible.
C25_AddMessageAtomic ==
    /\ \A a \in Callers : \A i \in DOMAIN db.msgs :
          txn[a].open => db.msgs[i].id # txn[a].row.id
    /\ \A i \in DOMAIN db.convs :
          LET c == db.convs[i] IN
          c.updated_at = IF HasMessage(c.id) THEN LastStamp(c.id) ELSE c.created_at
    /\ AddRaised => \A i \in DOMAIN db.msgs : db.msgs[i].id # chatOut.out.value

\* an add_message returned: its message is visible and the conversation's
\* updated_at has moved from its creation time to the message's timestamp
C25_Witness ==
    /\ chatOut.op = "add_message"
    /\ chatOut.out.kind = "returned"
    /\ \E i \in DOMAIN db.msgs, j \in DOMAIN db.convs :
          /\ db.msgs[i].id = chatOut.out.value
          /\ db.convs[j].id = db.msgs[i].conversation_id
          /\ db.convs[j].updated_at = db.msgs[i].timestamp
          /\ db.convs[j].updated_at > db.convs[j].created_at

\* no call is under way: no transaction is open and no request is between
\* two statements
Quiet == (\A a \in Callers : ~txn[a].open) /\ req.pc \in {"idle", "done"}

\* C28: every connection taken from the pool by a ChatService call or by
\* init_db is back in the pool when the call has finished, on success and on
\* every failure: when no call is under way no connection is checked out.
C28_ConnectionsReturned == Quiet => used = 0

\* the DELETE statement of the last watched call matched a conversation
RowDeleted == chatOut.matched.convs = 1

\* C30: DELETE /chat/conversations/<id> answers 404 when no conversation
\* with that id exists, and 200 only when a conversation was deleted.
C30_DeleteStatus ==
    chatOut.op = "delete_conversation" =>
        /\ chatOut.status = HTTP_OK => RowDeleted
        /\ (chatOut.out.value = 1 /\ ~RowDeleted) => chatOut.status = HTTP_NOT_FOUND

\* the agent has been run for the request
AgentInvoked == \E i \in DOMAIN req.calls : req.calls[i] = "agent_runner.run"

\* the ids of the messages the request has inserted
OwnIds ==
    {req.saved[i].id : i \in DOMAIN req.saved}
    \cup (IF txn["R"].open THEN {txn["R"].row.id} ELSE {})

\* C26: in send_message the history is read before the user message is
\* saved: the model input of a request is the converted history followed by
\* the current query, which it holds exactly once, as its last human
\* message, and the history holds no message the same request saved.
C26_HistoryBeforeSave ==
    AgentInvoked =>
        LET inp == req.model_input
            n == Len(inp) IN
        /\ n = Len(req.history) + 1
        /\ inp[n] = HumanMessage(req.message)
        /\ Cardinality({i \in 1..n : inp[i] = HumanMessage(req.message)}) = 1
        /\ \A i \in DOMAIN req.history : req.history[i].id \notin OwnIds

\* the agent ran on a history of earlier messages, the user message of the
\* request being saved
C26_Witness ==
    /\ AgentInvoked
    /\ Len(req.history) >= 1
    /\ Len(req.saved) >= 1
    /\ req.saved[1].content = req.message

\* C27: a POST /chat/message that answers 200 has persisted exactly two
\* messages in the conversation it returns, first the user message and then
\* a non-empty assistant message equal to the returned response; when the
\* agent run raised or gave an empty answer, that message is the fixed
\* agent-error response.
C27_TwoMessagesSaved ==
    req.status = HTTP_OK =>
        /\ Len(req.saved) = 2
        /\ req.saved[1].conversation_id = req.conv
        /\ req.saved[2].conversation_id = req.conv
        /\ req.saved[1].is_user /\ req.saved[1].content = req.message
        /\ ~req.saved[2].is_user /\ req.saved[2].content = req.response
        /\ req.saved[1].id < req.saved[2].id
        /\ req.response \notin {"", None}
        /\ (req.agent.kind = "raised" \/ req.agent.value = "") =>
              req.response = AGENT_ERROR_RESPONSE
        /\ req.conversation_id # 0 => req.conv = req.conversation_id

\* a request answered 200 although the agent gave an empty answer
C27_Witness ==
    /\ req.status = HTTP_OK
    /\ req.agent.kind = "returned"
    /\ req.agent.value = ""
    /\ Len(req.saved) = 2

====
